---- MODULE Spec2Model ----
(***************************************************************************)
(* Connection lifecycle and shutdown coordination of the Steel server:     *)
(* SteelServer (steel/src/lib.rs) and its plugin host SteelServerNylium    *)
(* (steel-nylium/src/main.rs).                                             *)
(*                                                                         *)
(* The processes are the host (start / stop callbacks), the startup task   *)
(* spawned by the host's start(), the main simulation loop, the acceptor   *)
(* task, and the outbound and inbound task of every accepted connection.   *)
(* They run on a multi-threaded runtime, so their steps interleave freely. *)
(***************************************************************************)
EXTENDS Integers, Sequences, FiniteSets, TLC

\* ---------------------------------------------------------------- bounds
\* Accept attempts that succeed, over one run of the acceptor.
MaxAccepts == 5
\* Connections whose actor is alive at the same time.
MaxLive == 2
\* Calls of SteelServer::stop.
MaxStops == 2
\* Width in bits of the client identifier counter of the model.
IdBits == 2

RECURSIVE Pow2(_)
Pow2(n) == IF n = 0 THEN 1 ELSE 2 * Pow2(n - 1)

\* The counter wraps modulo 2^w (client_id.wrapping_add).
IdModulus == Pow2(IdBits)

\* ---------------------------------------------------------------- state
VARIABLES
    startPc,          \* position of the host's start() and of the startup task
    server,           \* the host's shared slot: "None" or "Some"
    simState,         \* the main simulation loop task (server_handle)
    accPc,            \* position of the acceptor task
    current,          \* the connection the acceptor's select arm is handling
    client_id,        \* the acceptor's identifier counter
    acceptFailed,     \* whether an accept_result has been an Err
    nodelay,          \* Result of set_nodelay in the running accept arm
    log,              \* identifiers logged by "Accepted connection ... (id N)"
    clients,          \* live connection actors, by acceptance index
    tokens,           \* the cancellation tree: token id -> node
    tracker,          \* the TaskTracker created by the startup task
    stopCalls,        \* number of calls of SteelServer::stop
    bindResult,       \* the Result of TcpListener::bind
    atCancel          \* what the first cancellation of the root found

vars == <<startPc, server, simState, accPc, current, client_id, acceptFailed,
          nodelay, log, clients, tokens, tracker, stopCalls, bindResult,
          atCancel>>

\* ------------------------------------------------- cancellation hierarchy
Root == 0
NoParent == -1
NoClient == 0

\* CancellationToken::new(): a fresh, uncancelled token without a parent.
NewToken == [cancelled |-> FALSE, parent |-> NoParent]

HasToken(toks, t) == t \in DOMAIN toks

\* is_cancelled() of token t.
IsCancelled(toks, t) == HasToken(toks, t) /\ toks[t].cancelled

RECURSIVE HasAncestor(_, _, _)
HasAncestor(toks, i, t) ==
    LET p == toks[i].parent IN
    IF p = NoParent \/ ~HasToken(toks, p) THEN FALSE
    ELSE IF p = t THEN TRUE
    ELSE HasAncestor(toks, p, t)

\* cancel() on token t: t and every token derived from it become cancelled;
\* a cancelled token stays cancelled.
Cancel(toks, t) ==
    [i \in DOMAIN toks |->
        IF i = t \/ HasAncestor(toks, i, t)
        THEN [toks[i] EXCEPT !.cancelled = TRUE]
        ELSE toks[i]]

\* The token handed to a connection when the parent's handle is only cloned:
\* no new node, the connection holds the parent itself.
DeriveToken_clone(toks, p, tid) == [toks |-> toks, id |-> p]

\* The token handed to a connection when a fresh token is created for it.
DeriveToken_fresh(toks, p, tid) ==
    [toks |-> toks @@ (tid :> NewToken), id |-> tid]

\* cancel_token.child_token(): a new node under p, born cancelled when p
\* is already cancelled.
DeriveToken(toks, p, tid) ==
    [toks |-> toks @@ (tid :> [cancelled |-> toks[p].cancelled, parent |-> p]),
     id   |-> tid]

\* Dropping the last handle of a token releases its node; the root is owned
\* by the controller and is never released.
DropToken(toks, t) ==
    IF t = Root THEN toks
    ELSE [i \in DOMAIN toks \ {t} |-> toks[i]]

RootCancelled == IsCancelled(tokens, Root)

\* ------------------------------------------------------------ drain barrier
\* TaskTracker::new(): open and empty.
NewTracker == [closed |-> FALSE, tasks |-> {}]

\* tracker.spawn(task): the task is tracked, whether or not the tracker has
\* been closed.
Track(tr, task) == [tr EXCEPT !.tasks = @ \cup {task}]

\* A tracked task finished.
Untrack(tr, task) == [tr EXCEPT !.tasks = @ \ {task}]

\* wait() completes when the tracker is closed and empty.
WaitReady(tr) == tr.closed /\ tr.tasks = {}

\* ------------------------------------------------------------------- init
NotCancelledYet == [pending |-> 0, closed |-> FALSE]

Init ==
    /\ startPc = "idle"
    /\ server = "None"
    /\ simState = "unspawned"
    /\ accPc = "unspawned"
    /\ current = NoClient
    /\ client_id = 0
    /\ acceptFailed = FALSE
    /\ nodelay = "none"
    /\ log = <<>>
    /\ clients = <<>>
    /\ tokens = <<>>
    /\ tracker = NewTracker
    /\ stopCalls = 0
    /\ bindResult = "none"
    /\ atCancel = NotCancelledYet

\* ------------------------------------------------------ host and startup
\* SteelServerNylium::start: constructs the controller (SteelServer::new
\* creates the root signal) and spawns the startup task.
NyliumStart ==
    /\ startPc = "idle"
    /\ tokens' = (Root :> NewToken)
    /\ startPc' = "start"
    /\ UNCHANGED <<server, simState, accPc, current, client_id, acceptFailed,
                   log, clients, tracker, stopCalls, bindResult, atCancel,
                   nodelay>>

\* A start() that binds first and leaves the simulation loop for later.
SpawnServer_deferred ==
    /\ startPc = "start"
    /\ startPc' = "bind"
    /\ UNCHANGED <<server, simState, accPc, current, client_id, acceptFailed,
                   log, clients, tokens, tracker, stopCalls, bindResult,
                   atCancel, nodelay>>

\* SteelServer::start, first part: the main simulation loop is spawned with
\* tokio::spawn; the drain barrier passed to start() is not involved.
SpawnServer ==
    /\ startPc = "start"
    /\ simState' = "running"
    /\ startPc' = "bind"
    /\ UNCHANGED <<server, accPc, current, client_id, acceptFailed, log,
                   clients, tokens, tracker, stopCalls, bindResult, atCancel,
                   nodelay>>

\* TcpListener::bind(self.bind_address).await: succeeds, or fails when the
\* address is unavailable.
Bind ==
    /\ startPc = "bind"
    /\ \E r \in {"ok", "err"} : bindResult' = r
    /\ startPc' = "expect"
    /\ UNCHANGED <<server, simState, accPc, current, client_id, acceptFailed,
                   log, clients, tokens, tracker, stopCalls, atCancel,
                   nodelay>>

\* A start() that goes on whatever bind returned.
AfterBind_ignore(r) == "spawn_acceptor"

\* .expect("Failed to bind to server address"): an Err panics, and the panic
\* unwinds start() and the startup task that awaits it.
AfterBind(r) == IF r = "ok" THEN "spawn_acceptor" ELSE "panicked"

Expect ==
    /\ startPc = "expect"
    /\ startPc' = AfterBind(bindResult)
    /\ UNCHANGED <<server, simState, accPc, current, client_id, acceptFailed,
                   log, clients, tokens, tracker, stopCalls, bindResult,
                   atCancel, nodelay>>

\* SteelServer::start, last part: the acceptor is spawned with client_id = 0
\* and start() returns.
SpawnAcceptor ==
    /\ startPc = "spawn_acceptor"
    /\ accPc' = "loop"
    /\ client_id' = 0
    /\ startPc' = "close"
    /\ UNCHANGED <<server, simState, current, acceptFailed, log, clients,
                   tokens, tracker, stopCalls, bindResult, atCancel, nodelay>>

\* task_tracker.close()
Close ==
    /\ startPc = "close"
    /\ tracker' = [tracker EXCEPT !.closed = TRUE]
    /\ startPc' = "wait"
    /\ UNCHANGED <<server, simState, accPc, current, client_id, acceptFailed,
                   log, clients, tokens, stopCalls, bindResult, atCancel,
                   nodelay>>

\* task_tracker.wait().await returns.
WaitReturn ==
    /\ startPc = "wait"
    /\ WaitReady(tracker)
    /\ startPc' = "publish"
    /\ UNCHANGED <<server, simState, accPc, current, client_id, acceptFailed,
                   log, clients, tokens, tracker, stopCalls, bindResult,
                   atCancel, nodelay>>

\* *this.server.lock().await = Some(steel)
Publish ==
    /\ startPc = "publish"
    /\ server' = "Some"
    /\ startPc' = "done"
    /\ UNCHANGED <<simState, accPc, current, client_id, acceptFailed, log,
                   clients, tokens, tracker, stopCalls, bindResult, atCancel,
                   nodelay>>

\* ------------------------------------------------------------------ stop
\* History only: the number of connections whose child signal was not yet
\* cancelled, and the state of the drain barrier, when the root signal was
\* first cancelled.
Observe(toks) ==
    IF IsCancelled(toks, Root) THEN atCancel
    ELSE [pending |-> Cardinality({k \in DOMAIN clients :
                                     ~IsCancelled(toks, clients[k].token)}),
          closed  |-> tracker.closed]

\* A stop() that raises the signal on the first call and lowers it again on
\* the next one.
StopTokens_toggle(toks) ==
    IF IsCancelled(toks, Root)
    THEN [toks EXCEPT ![Root].cancelled = FALSE]
    ELSE Cancel(toks, Root)

\* SteelServer::stop: self.cancel_token.cancel()
StopTokens(toks) == Cancel(toks, Root)

\* SteelServer::stop called by a holder of the controller or of the root
\* signal; possible as soon as the controller exists.
Stop ==
    /\ HasToken(tokens, Root)
    /\ stopCalls < MaxStops
    /\ tokens' = StopTokens(tokens)
    /\ atCancel' = Observe(tokens)
    /\ stopCalls' = stopCalls + 1
    /\ UNCHANGED <<startPc, server, simState, accPc, current, client_id,
                   acceptFailed, log, clients, tracker, bindResult, nodelay>>

\* A host stop() that reaches the controller whether or not it was published.
NyliumStop_always ==
    /\ stopCalls < MaxStops
    /\ HasToken(tokens, Root)
    /\ tokens' = StopTokens(tokens)
    /\ atCancel' = Observe(tokens)
    /\ stopCalls' = stopCalls + 1
    /\ UNCHANGED <<startPc, server, simState, accPc, current, client_id,
                   acceptFailed, log, clients, tracker, bindResult, nodelay>>

\* SteelServerNylium::stop: stops the controller if the slot holds one.
NyliumStop ==
    /\ IF server = "Some"
       THEN /\ stopCalls < MaxStops
            /\ tokens' = StopTokens(tokens)
            /\ atCancel' = Observe(tokens)
            /\ stopCalls' = stopCalls + 1
       ELSE UNCHANGED <<tokens, atCancel, stopCalls>>
    /\ UNCHANGED <<startPc, server, simState, accPc, current, client_id,
                   acceptFailed, log, clients, tracker, bindResult, nodelay>>

\* Server::run(cancel_token) returns once the root signal is cancelled.
SimExit ==
    /\ simState = "running"
    /\ RootCancelled
    /\ simState' = "done"
    /\ UNCHANGED <<startPc, server, accPc, current, client_id, acceptFailed,
                   log, clients, tokens, tracker, stopCalls, bindResult,
                   atCancel, nodelay>>

\* -------------------------------------------------------------- acceptor
\* select! polls its ready branches in random order: the cancellation branch
\* is ready when the root signal is cancelled, the accept branch when the
\* listener has a connection or an error to hand over.

\* () = cancel_token.cancelled() => break
AcceptBreak ==
    /\ accPc = "loop"
    /\ RootCancelled
    /\ accPc' = "await_server"
    /\ UNCHANGED <<startPc, server, simState, current, client_id,
                   acceptFailed, log, clients, tokens, tracker, stopCalls,
                   bindResult, atCancel, nodelay>>

\* An acceptor that leaves its loop when an accept fails.
AfterAcceptErr_break == "await_server"

\* let Ok(..) = accept_result else { continue; }
AfterAcceptErr == "loop"

\* A failed accept that uses up an identifier.
AcceptErr_consumesId ==
    /\ accPc = "loop"
    /\ acceptFailed' = TRUE
    /\ client_id' = (client_id + 1) % IdModulus
    /\ accPc' = AfterAcceptErr
    /\ UNCHANGED <<startPc, server, simState, current, log, clients, tokens,
                   tracker, stopCalls, bindResult, atCancel, nodelay>>

AcceptErr ==
    /\ accPc = "loop"
    /\ acceptFailed' = TRUE
    /\ accPc' = AfterAcceptErr
    /\ UNCHANGED <<startPc, server, simState, current, client_id, log,
                   clients, tokens, tracker, stopCalls, bindResult, atCancel,
                   nodelay>>

\* A counter that is never advanced.
NextClientId_stuck(id) == id

\* A counter that stops at its largest value (saturating_add).
NextClientId_saturating(id) == IF id + 1 = IdModulus THEN id ELSE id + 1

\* client_id = client_id.wrapping_add(1)
NextClientId(id) == (id + 1) % IdModulus

\* JavaTcpClient::new(connection, address, client_id, child, server, tracker)
NewClient(id, tok) ==
    [id |-> id, token |-> tok, out |-> "unstarted", inb |-> "unstarted"]

\* An acceptor that gives up a connection on which TCP_NODELAY could not be
\* set.
AfterNodelay_fatal(nd) == IF nd = "err" THEN "drop" ELSE "handle"

\* if let Err(e) = connection.set_nodelay(true) { log::warn!(..) }: the
\* failure is logged and the arm goes on.
AfterNodelay(nd) == "handle"

\* An acceptor that joins the tasks of the connections it has accepted
\* before it accepts the next one.
AcceptOk_serial ==
    /\ accPc = "loop"
    /\ Len(log) < MaxAccepts
    /\ Cardinality(DOMAIN clients) < MaxLive
    /\ \A j \in DOMAIN clients :
         clients[j].out # "running" /\ clients[j].inb # "running"
    /\ \E nd \in {"ok", "err"} :
         /\ nodelay' = nd
         /\ IF AfterNodelay(nd) = "handle"
            THEN /\ LET k == Len(log) + 1
                        d == DeriveToken(tokens, Root, k)
                    IN  /\ tokens' = d.toks
                        /\ clients' =
                              clients @@ (k :> NewClient(client_id, d.id))
                        /\ current' = k
                 /\ log' = Append(log, client_id)
                 /\ client_id' = NextClientId(client_id)
                 /\ accPc' = "start_out"
            ELSE UNCHANGED <<tokens, clients, current, log, client_id, accPc>>
    /\ UNCHANGED <<startPc, server, simState, acceptFailed, tracker, stopCalls,
                   bindResult, atCancel>>

\* accept_result is Ok: TCP_NODELAY is requested on the connection, the actor
\* is constructed with the current identifier and a child of the root signal,
\* the identifier is logged and advanced.
AcceptOk ==
    /\ accPc = "loop"
    /\ Len(log) < MaxAccepts
    /\ Cardinality(DOMAIN clients) < MaxLive
    /\ \E nd \in {"ok", "err"} :
         /\ nodelay' = nd
         /\ IF AfterNodelay(nd) = "handle"
            THEN /\ LET k == Len(log) + 1
                        d == DeriveToken(tokens, Root, k)
                    IN  /\ tokens' = d.toks
                        /\ clients' =
                              clients @@ (k :> NewClient(client_id, d.id))
                        /\ current' = k
                 /\ log' = Append(log, client_id)
                 /\ client_id' = NextClientId(client_id)
                 /\ accPc' = "start_out"
            ELSE UNCHANGED <<tokens, clients, current, log, client_id, accPc>>
    /\ UNCHANGED <<startPc, server, simState, acceptFailed, tracker, stopCalls,
                   bindResult, atCancel>>

\* java_client.start_outgoing_packet_task(sender_recv)
StartOutgoing ==
    /\ accPc = "start_out"
    /\ clients' = [clients EXCEPT ![current].out = "running"]
    /\ tracker' = Track(tracker, <<current, "out">>)
    /\ accPc' = "start_in"
    /\ UNCHANGED <<startPc, server, simState, current, client_id,
                   acceptFailed, log, tokens, stopCalls, bindResult, atCancel,
                   nodelay>>

\* java_client.start_incoming_packet_task(net_reader); the select arm ends,
\* its locals go out of scope and the acceptor's own handle of the actor is
\* dropped.
StartIncoming ==
    /\ accPc = "start_in"
    /\ clients' = [clients EXCEPT ![current].inb = "running"]
    /\ tracker' = Track(tracker, <<current, "inb">>)
    /\ current' = NoClient
    /\ nodelay' = "none"
    /\ accPc' = "loop"
    /\ UNCHANGED <<startPc, server, simState, client_id, acceptFailed, log,
                   tokens, stopCalls, bindResult, atCancel>>

\* An acceptor task that ends without awaiting the simulation loop's handle.
AcceptorFinish_detached ==
    /\ accPc = "await_server"
    /\ accPc' = "done"
    /\ UNCHANGED <<startPc, server, simState, current, client_id,
                   acceptFailed, log, clients, tokens, tracker, stopCalls,
                   bindResult, atCancel, nodelay>>

\* let _ = server_handle.await
AcceptorFinish ==
    /\ accPc = "await_server"
    /\ simState = "done"
    /\ accPc' = "done"
    /\ UNCHANGED <<startPc, server, simState, current, client_id,
                   acceptFailed, log, clients, tokens, tracker, stopCalls,
                   bindResult, atCancel, nodelay>>

\* ----------------------------------------------------- connection actors
TaskNames == {"out", "inb"}

\* An actor that is released as soon as one of its tasks has exited.
Released_either(c, k) == (c.out = "done" \/ c.inb = "done") /\ current # k

\* The actor is released when neither the acceptor nor a task holds it.
Released(c, k) == c.out = "done" /\ c.inb = "done" /\ current # k

\* A connection task exits: the connection closed, an error occurred, or the
\* task observed its child signal.
TaskExit(k, t) ==
    /\ k \in DOMAIN clients
    /\ clients[k][t] = "running"
    /\ tracker' = Untrack(tracker, <<k, t>>)
    /\ LET c == [clients[k] EXCEPT ![t] = "done"] IN
       IF Released(c, k)
       THEN /\ clients' = [j \in DOMAIN clients \ {k} |-> clients[j]]
            /\ tokens' = DropToken(tokens, c.token)
       ELSE /\ clients' = [clients EXCEPT ![k] = c]
            /\ UNCHANGED tokens
    /\ UNCHANGED <<startPc, server, simState, accPc, current, client_id,
                   acceptFailed, log, stopCalls, bindResult, atCancel,
                   nodelay>>

\* A connection's own child signal is cancelled (single-connection teardown).
\* Cancelling a signal that is already cancelled changes nothing.
CancelChild(k) ==
    /\ k \in DOMAIN clients
    /\ ~IsCancelled(tokens, clients[k].token)
    /\ tokens' = Cancel(tokens, clients[k].token)
    /\ UNCHANGED <<startPc, server, simState, accPc, current, client_id,
                   acceptFailed, log, clients, tracker, stopCalls, bindResult,
                   atCancel, nodelay>>

\* ------------------------------------------------------------ specification
Next ==
    \/ NyliumStart
    \/ SpawnServer
    \/ Bind
    \/ Expect
    \/ SpawnAcceptor
    \/ Close
    \/ WaitReturn
    \/ Publish
    \/ Stop
    \/ NyliumStop
    \/ SimExit
    \/ AcceptBreak
    \/ AcceptErr
    \/ AcceptOk
    \/ StartOutgoing
    \/ StartIncoming
    \/ AcceptorFinish
    \/ \E k \in 1..MaxAccepts, t \in TaskNames : TaskExit(k, t)
    \/ \E k \in 1..MaxAccepts : CancelChild(k)

Spec == Init /\ [][Next]_vars

\* The runtime keeps polling a spawned task that can take a step, and the
\* random branch order of select! does not starve the cancellation branch.
Fairness ==
    /\ WF_vars(StartOutgoing)
    /\ WF_vars(StartIncoming)
    /\ SF_vars(AcceptBreak)
    /\ WF_vars(SimExit)
    /\ WF_vars(AcceptorFinish)

FairSpec == Spec /\ Fairness

\* ------------------------------------------------------------ vocabulary
Live == DOMAIN clients

\* The orchestrator's wait on the drain barrier has returned.
WaitReturned == startPc \in {"publish", "done"}

\* Connection k has a task that has been started and has not exited.
HasRunningTask(c, k) == c[k].out = "running" \/ c[k].inb = "running"

ChildCancelled(toks, c, k) == IsCancelled(toks, c[k].token)

\* The acceptor is inside its loop (at the select, or in the accept arm).
InLoop == accPc \in {"loop", "start_out", "start_in"}

\* ------------------------------------------------------------------ claims

\* C1: closing and then waiting on the drain barrier after stop() returns
\* only after every unit of work has completed: when the wait returns, and
\* the root signal was cancelled before the barrier was closed, neither the
\* simulation loop nor a connection task is still running.
C1_WaitReturnsAfterAllWork ==
    [][(startPc = "wait" /\ startPc' = "publish"
            /\ RootCancelled /\ ~atCancel.closed)
        => /\ simState' # "running"
           /\ \A k \in DOMAIN clients' : ~HasRunningTask(clients', k)]_vars

\* C2: once the root signal is cancelled, the child signal of every active
\* connection reports cancelled, although only the root was cancelled.
C2_RootCancelReachesChildren ==
    RootCancelled => \A k \in Live : ChildCancelled(tokens, clients, k)

\* C2 witness: the root was cancelled while MaxLive connections were active
\* with their child signals not cancelled; all of them now report cancelled.
C2_Witness ==
    /\ RootCancelled
    /\ atCancel.pending = MaxLive
    /\ Len(log) = MaxLive
    /\ Live = 1..MaxLive
    /\ \A k \in Live : ChildCancelled(tokens, clients, k)
                        /\ HasRunningTask(clients, k)

\* C3: if the root signal is cancelled before any connection has been
\* accepted, no connection is ever accepted.
C3_NoAcceptAfterEarlyCancel ==
    [][(RootCancelled /\ log = <<>>) => log' = <<>>]_vars

\* C4: the k-th accepted connection (from 0) gets identifier k, as long as
\* the counter has not wrapped; the actor carries the logged identifier.
C4_IdsInAcceptanceOrder ==
    /\ \A k \in 1..Len(log) : k <= IdModulus => log[k] = k - 1
    /\ \A k \in Live : clients[k].id = log[k]

\* C4 witness: three connections accepted in order received 0, 1, 2.
C4_Witness ==
    /\ Len(log) >= 3
    /\ log[1] = 0 /\ log[2] = 1 /\ log[3] = 2
    /\ 3 \in Live /\ clients[3].id = 2

\* C5: once the drain barrier has been closed, no new unit of work is
\* registered with it.
C5_NoRegistrationAfterClose ==
    [][tracker.closed => tracker'.tasks \subseteq tracker.tasks]_vars

\* C6: a failed accept never terminates the acceptor: after failed accepts,
\* and as long as the root signal is not cancelled, the acceptor is still in
\* its loop.
C6_AcceptFailureNotFatal ==
    (acceptFailed /\ ~RootCancelled) => InLoop

\* C6 witness: an accept has failed before any connection was accepted, the
\* root signal is not cancelled and the acceptor can accept a connection.
C6_Witness ==
    /\ acceptFailed
    /\ ~RootCancelled
    /\ log = <<>>
    /\ ENABLED AcceptOk

\* C7: stop() always leaves the root signal cancelled and never fails; a
\* stop() on a cancelled root changes nothing but the count of calls.
C7_StopIdempotent ==
    [][(stopCalls' = stopCalls + 1)
        => /\ IsCancelled(tokens', Root)
           /\ startPc' = startPc
           /\ RootCancelled =>
                UNCHANGED <<startPc, server, simState, accPc, current,
                            client_id, acceptFailed, log, clients, tokens,
                            tracker, bindResult, atCancel>>]_vars

\* C7 witness: stop() was called twice before start() had begun.
C7_Witness ==
    /\ stopCalls = 2
    /\ startPc = "start"
    /\ RootCancelled

C9_ChildCancelIsLocal ==
    [][\A k \in Live :
         (/\ stopCalls' = stopCalls
          /\ k \in DOMAIN clients'
          /\ ~ChildCancelled(tokens, clients, k)
          /\ ChildCancelled(tokens', clients', k))
         => /\ IsCancelled(tokens', Root) = IsCancelled(tokens, Root)
            /\ accPc' = accPc
            /\ \A j \in Live \ {k} :
                 /\ j \in DOMAIN clients'
                 /\ ChildCancelled(tokens', clients', j)
                      = ChildCancelled(tokens, clients, j)]_vars

\* C9 witness: connection 1 has been cancelled on its own; the root signal
\* and connection 2 are not cancelled and the acceptor is at its select.
C9_Witness ==
    /\ Live = {1, 2}
    /\ ChildCancelled(tokens, clients, 1)
    /\ ~ChildCancelled(tokens, clients, 2)
    /\ HasRunningTask(clients, 2)
    /\ ~RootCancelled
    /\ accPc = "loop"

\* C10: whenever the orchestrator's wait on the drain barrier has returned,
\* the root signal is already cancelled.
C10_WaitReturnsAfterCancel ==
    WaitReturned => RootCancelled

\* C11: once the root signal is cancelled the accept loop is eventually
\* left, and the acceptor task is finished only when the simulation loop's
\* task has finished.
C11_AcceptorAwaitsSimulation ==
    /\ [](accPc = "done" => simState = "done")
    /\ (RootCancelled /\ InLoop) ~> (accPc \in {"await_server", "done"})

\* C11 witness: the acceptor task has finished, after the simulation loop,
\* while a connection task is still running: it waited for none of them.
C11_Witness ==
    /\ accPc = "done"
    /\ simState = "done"
    /\ \E k \in Live : HasRunningTask(clients, k)

\* C12: connection handling is decoupled from acceptance and failures are
\* contained: at its select the acceptor can accept the next connection
\* whatever the state of the tasks of the earlier ones, and the exit of a
\* connection task (by an error or otherwise) changes neither the acceptor,
\* nor the simulation loop, nor the root signal, nor another connection.
C12_ConnectionsDecoupled ==
    /\ []((accPc = "loop" /\ Len(log) < MaxAccepts
                /\ Cardinality(Live) < MaxLive)
            => ENABLED AcceptOk)
    /\ [][(tracker'.tasks # tracker.tasks
                /\ tracker'.tasks \subseteq tracker.tasks)
            => /\ accPc' = accPc
               /\ simState' = simState
               /\ IsCancelled(tokens', Root) = IsCancelled(tokens, Root)
               /\ \E k \in Live :
                    \A j \in Live \ {k} :
                        /\ j \in DOMAIN clients'
                        /\ clients'[j] = clients[j]
                        /\ tokens'[clients'[j].token]
                             = tokens[clients[j].token]]_vars

\* C12 witness: connection 1 has lost its outbound task and still runs its
\* inbound task; the simulation loop runs and the acceptor can accept.
C12_Witness ==
    /\ Live = {1}
    /\ clients[1].out = "done"
    /\ clients[1].inb = "running"
    /\ simState = "running"
    /\ accPc = "loop"
    /\ ENABLED AcceptOk

\* C13: the identifier counter is incremented modulo 2^w after each
\* successful accept: the k-th accepted connection (from 0) has identifier
\* k mod 2^w, the counter stays below 2^w, and the acceptor goes on after
\* the counter has wrapped.
C13_IdWrapsModulo ==
    /\ \A k \in 1..Len(log) : log[k] = (k - 1) % IdModulus
    /\ client_id = Len(log) % IdModulus
    /\ (Len(log) > IdModulus /\ ~RootCancelled) => InLoop

\* C13 witness: the connection accepted after the one with identifier
\* 2^w - 1 received identifier 0, which the first connection had too.
C13_Witness ==
    /\ Len(log) = IdModulus + 1
    /\ log[IdModulus] = IdModulus - 1
    /\ log[IdModulus + 1] = 0
    /\ log[1] = 0
    /\ (IdModulus + 1) \in Live
    /\ clients[IdModulus + 1].id = 0

\* C14: cancellation is terminal: from a state in which the root signal is
\* cancelled every step leads to a state in which the root signal and the
\* child signal of every connection, old or new, are cancelled; and no step
\* lowers a child signal that is cancelled.
C14_CancellationTerminal ==
    [][/\ RootCancelled
          => /\ IsCancelled(tokens', Root)
             /\ \A k \in DOMAIN clients' :
                  ChildCancelled(tokens', clients', k)
       /\ \A k \in Live \cap DOMAIN clients' :
            ChildCancelled(tokens, clients, k)
                => ChildCancelled(tokens', clients', k)]_vars

\* C14 witness: stop() has been called twice and the root signal is
\* cancelled; the child signal of every live connection is cancelled, one of
\* them still has a running task, and the acceptor, still at its select, can
\* derive a further child.
C14_Witness ==
    /\ RootCancelled
    /\ stopCalls = 2
    /\ \A k \in Live : ChildCancelled(tokens, clients, k)
    /\ \E k \in Live : HasRunningTask(clients, k)
    /\ ENABLED AcceptOk

\* C15: whatever set_nodelay returned, the step that takes a connection is a
\* complete acceptance: the identifier is logged and advanced, an actor with
\* that identifier, a child of the root signal and two unstarted tasks is
\* created; the arm then starts the outbound task, starts the inbound task
\* and returns to the select, without looking at the result again.
C15_NodelayFailureNotFatal ==
    /\ [][(Len(log') # Len(log))
            => LET k == Len(log) + 1 IN
               /\ nodelay' \in {"ok", "err"}
               /\ log' = Append(log, client_id)
               /\ client_id' = NextClientId(client_id)
               /\ DOMAIN clients' = Live \cup {k}
               /\ clients'[k] = NewClient(client_id, clients'[k].token)
               /\ HasToken(tokens', clients'[k].token)
               /\ tokens'[clients'[k].token].parent = Root
               /\ current' = k
               /\ accPc' = "start_out"]_vars
    /\ []((nodelay # "none")
            <=> (accPc \in {"start_out", "start_in"} /\ current \in Live))
    /\ [][(nodelay # "none" /\ accPc' # accPc)
            => IF accPc = "start_out"
               THEN /\ accPc' = "start_in"
                    /\ nodelay' = nodelay
                    /\ clients'[current].out = "running"
               ELSE /\ accPc' = "loop"
                    /\ nodelay' = "none"
                    /\ clients'[current].out # "unstarted"
                    /\ clients'[current].inb = "running"]_vars

\* C15 witness: TCP_NODELAY could not be set on the second connection; its
\* actor exists, its outbound task runs and its inbound task is about to be
\* started, after which the acceptor is back at its select.
C15_Witness ==
    /\ nodelay = "err"
    /\ Len(log) = 2
    /\ current = 2
    /\ accPc = "start_in"
    /\ clients[2].out = "running"
    /\ ~RootCancelled
    /\ ENABLED StartIncoming

\* C16: every accepted connection has at most one actor, created by its
\* acceptance; the actor's tasks are the outbound and the inbound one, the
\* outbound started first, both under the actor's one child of the root
\* signal and no two actors under the same child; back at the select both
\* tasks of every actor have been started; a task that has not exited belongs
\* to a live actor; an actor both of whose tasks have exited is gone, and an
\* actor goes only at the exit of its last task.
C16_OneActorTwoTasks ==
    /\ [](/\ Live \subseteq 1..Len(log)
          /\ tracker.tasks \subseteq (Live \X TaskNames)
          /\ \A k \in Live :
               /\ clients[k].id = log[k]
               /\ HasToken(tokens, clients[k].token)
               /\ tokens[clients[k].token].parent = Root
               /\ \A j \in Live \ {k} : clients[j].token # clients[k].token
               /\ \A t \in TaskNames :
                    (<<k, t>> \in tracker.tasks) <=> (clients[k][t] = "running")
               /\ clients[k].inb # "unstarted" => clients[k].out # "unstarted"
               /\ clients[k].inb = "unstarted" => current = k
               /\ ~(clients[k].out = "done" /\ clients[k].inb = "done"))
    /\ [][\A k \in Live \ DOMAIN clients' :
            /\ {clients[k].out, clients[k].inb} = {"running", "done"}
            /\ \A t \in TaskNames : <<k, t>> \notin tracker'.tasks]_vars

\* C16 witness: the first connection's actor has been released after both of
\* its tasks exited; the second connection's outbound task has exited and its
\* inbound task still runs, so its actor is retained.
C16_Witness ==
    /\ Len(log) >= 2
    /\ 1 \notin Live
    /\ 2 \in Live
    /\ clients[2].out = "done"
    /\ clients[2].inb = "running"
    /\ tracker.tasks = {<<2, "inb">>}

\* C17: the controller is in the host's slot only after close() and wait()
\* of the startup task have returned; a host stop() that finds the slot empty
\* changes nothing, one that finds the controller leaves the root signal
\* cancelled.
C17_HostStopNeedsPublication ==
    /\ [](server = "Some" => (startPc = "done" /\ tracker.closed))
    /\ [][server' # server => (WaitReturned /\ tracker.closed)]_vars
    /\ [][NyliumStop =>
            IF server = "Some" THEN IsCancelled(tokens', Root)
                               ELSE UNCHANGED vars]_vars

\* C17 witness: the startup task is blocked in wait() on a running
\* connection task, the slot is empty and the root signal is not cancelled;
\* the host's stop() can be called and finds nothing to stop.
C17_Witness ==
    /\ startPc = "wait"
    /\ tracker.closed
    /\ tracker.tasks # {}
    /\ server = "None"
    /\ ~RootCancelled
    /\ ENABLED NyliumStop

C19_FailedAcceptConsumesNothing ==
    /\ [][(AcceptErr \/ acceptFailed' # acceptFailed)
            => UNCHANGED <<client_id, log, clients, tokens, tracker, current,
                           accPc, nodelay>>]_vars
    /\ [](acceptFailed =>
            /\ client_id = Len(log) % IdModulus
            /\ \A k \in Live : clients[k].id = (k - 1) % IdModulus
            /\ DOMAIN tokens \subseteq {Root} \cup Live
            /\ tracker.tasks \subseteq (Live \X TaskNames))

\* C19 witness: an accept has failed and two connections were accepted; they
\* carry the identifiers 0 and 1, the counter stands at 2, and there are two
\* child signals and four tasks.
C19_Witness ==
    /\ acceptFailed
    /\ log = <<0, 1>>
    /\ client_id = 2
    /\ Live = {1, 2}
    /\ clients[1].id = 0
    /\ clients[2].id = 1
    /\ DOMAIN tokens = {Root, 1, 2}
    /\ Cardinality(tracker.tasks) = 4

====
